---- MODULE Spec2Model ----
(***************************************************************************)
(* Model of LuisBot (src/bot.js): the turn handler onTurn and its two      *)
(* helpers welcomeUser and welcomeUserMessage.  One turn is processed at a *)
(* time; every `await` of the source is a step of the model.               *)
(*                                                                         *)
(* JavaScript values are represented as follows.                           *)
(*   - a string that the code inspects (activity.text, a video URL) is a   *)
(*     sequence of one-character strings;                                  *)
(*   - a value that may be `undefined` is a sequence of length at most     *)
(*     one: << >> is undefined, <<v>> is the value v;                      *)
(*   - a template literal is the sequence of its pieces.                   *)
(*                                                                         *)
(* The bot keeps no state of its own between turns: the constructor stores *)
(* the recognizer and the welcomedUserProperty accessor, and no method     *)
(* reads or writes the property.  `welcomed` is the value the user state   *)
(* holds for the sender; prevSent, prevErr and prevWelcomed record the     *)
(* previous turn when an activity is delivered a second time.              *)
(* turnContext.sendActivity belongs to the adapter and is taken to         *)
(* resolve; a rejected send would reject onTurn at that send.              *)
(***************************************************************************)
EXTENDS Integers, Sequences, FiniteSets, TLC

VARIABLES activity, welcomed, pc, luis, draw, randomVideo, hero, idx,
          sent, err, recognizeCalls, replay, prevSent, prevErr, prevWelcomed

vars == <<activity, welcomed, pc, luis, draw, randomVideo, hero, idx,
          sent, err, recognizeCalls, replay, prevSent, prevErr, prevWelcomed>>

-----------------------------------------------------------------------------
(* Bounds of the model.                                                    *)

\* Longest generated message body (bodies of that length over Alphabet).
MaxLen == 2
\* Longest membersAdded list of a conversationUpdate activity.
MaxMembers == 3
\* Math.random() is k / RandDenom for k in 0 .. RandDenom - 1, so 0 <= r < 1.
RandDenom == 4

-----------------------------------------------------------------------------
(* Strings.                                                                *)

Undefined == << >>

HI == <<"h", "i">>

HELLO == <<"h", "e", "l", "l", "o">>

Alphabet == {"h", "H", "i", "I", " "}

\* String.prototype.toLowerCase on one character.
LowerChar(c) ==
    CASE c = "H" -> "h"
      [] c = "I" -> "i"
      [] c = "E" -> "e"
      [] c = "L" -> "l"
      [] c = "O" -> "o"
      [] OTHER -> c

ToLowerCaseIdentity(s) == s

\* String.prototype.toLowerCase (bot.js:56).
ToLowerCase(s) == [i \in 1..Len(s) |-> LowerChar(s[i])]

\* Is the two-character needle at 0-based position p of s?
MatchAt(s, needle, p) ==
    /\ p + Len(needle) <= Len(s)
    /\ \A j \in 1..Len(needle) : s[p + j] = needle[j]

\* String.prototype.indexOf: 0-based position of the first match, or -1.
IndexOf(s, needle) ==
    LET hits == {p \in 0..Len(s) : MatchAt(s, needle, p)}
    IN  IF hits = {} THEN -1
        ELSE CHOOSE p \in hits : \A q \in hits : p <= q

\* String.prototype.substring(from, to) for 0 <= from <= to <= length.
Substring(s, from, to) == SubSeq(s, from + 1, to)

-----------------------------------------------------------------------------
(* The inputs of a turn.                                                   *)

BotId == "bot"

MemberIds == {BotId, "userX", "userY"}

Names == {"Ann", "Bob"}

SeqsUpTo(S, n) == UNION {[1..k -> S] : k \in 0..n}

\* Bodies of messages: every string over Alphabet up to MaxLen, and a few
\* longer ones around the two greetings.
Bodies ==
    SeqsUpTo(Alphabet, MaxLen) \cup
    { HELLO,
      <<"H", "e", "l", "l", "o">>,
      <<"H", "E", "L", "L", "O">>,
      <<" ", "h", "e", "l", "l", "o">>,
      <<"h", "e", "l", "l", "o", " ">>,
      <<" ", "H", "i", " ">>,
      <<"h", "i", "!">>,
      <<"h", "e", "y">> }

\* activity.text of a message: a body, or undefined.
Texts == {Undefined} \cup {<<b>> : b \in Bodies}

\* activity.membersAdded of a conversationUpdate: a list of members, or
\* undefined (an update that only removes members).
MemberLists == {Undefined} \cup {<<m>> : m \in SeqsUpTo(MemberIds, MaxMembers)}

Activities ==
    {[type |-> "message", text |-> t, membersAdded |-> Undefined,
      fromName |-> n, recipientId |-> BotId] : t \in Texts, n \in Names}
    \cup
    {[type |-> "conversationUpdate", text |-> Undefined, membersAdded |-> m,
      fromName |-> n, recipientId |-> BotId] : m \in MemberLists, n \in Names}
    \cup
    {[type |-> "event", text |-> Undefined, membersAdded |-> Undefined,
      fromName |-> n, recipientId |-> BotId] : n \in Names}

\* No activity has been received yet.
NoActivity ==
    [type |-> "none", text |-> Undefined, membersAdded |-> Undefined,
     fromName |-> "", recipientId |-> BotId]

\* The media library required by bot.js:3 (resources/videoLibrary.js).  A
\* sentiment label maps to a list of video URLs; "neutral" has an empty list
\* and "mixed" has no entry at all.
UrlA == <<"y", "?", "v", "=", "a">>

UrlB == <<"y", "?", "v", "=", "b", "1">>

UrlC == <<"y", "?", "v", "=", "c">>

UrlD == <<"z", "/", "d">>

UrlE == <<"y", "?", "v", "=", "e">>

videos ==
    [positive |-> <<UrlA, UrlB>>,
     negative |-> <<UrlC, UrlD, UrlE>>,
     neutral  |-> << >>]

SentimentLabels == {"positive", "negative", "neutral", "mixed"}

Intents == {"None", "PlayMusic"}

\* What LuisRecognizer.recognize can do: reject, or resolve with a result
\* whose luisResult has a topScoringIntent and, when sentiment analysis is
\* switched on in the LUIS application, a sentimentAnalysis.
NoLuis == [state |-> "unset", intent |-> "", sentiment |-> Undefined]

LuisFailure == [state |-> "failed", intent |-> "", sentiment |-> Undefined]

LuisResults ==
    {[state |-> "ok", intent |-> i, sentiment |-> s] :
        i \in Intents, s \in {Undefined} \cup {<<l>> : l \in SentimentLabels}}

-----------------------------------------------------------------------------
(* Outbound activities.                                                    *)

Message(body, attachments, actions) ==
    [text |-> body, attachments |-> attachments, suggestedActions |-> actions]

Attachment(contentType, title, urls, buttons) ==
    [contentType |-> contentType, title |-> title, urls |-> urls,
     buttons |-> buttons]

GIF == <<"https://i.pinimg.com/originals/34/f0/9f/34f09f59e193f07cda58088545859a88.gif">>

\* turnContext.sendActivity(`Here's my suggestion ...`) (bot.js:58).
AckMessage ==
    Message(<<"Here's my suggestion based on your mood, enjoy!">>, << >>, << >>)

\* The hero card built at bot.js:43-55 for the video v.
HeroMessage(v) ==
    LET at           == IndexOf(v, <<"v", "=">>)
        videoId      == Substring(v, at + 2, Len(v))
        videoPreview == <<"https://img.youtube.com/vi/">> \o videoId \o <<"/0.jpg">>
    IN  Message(<< >>,
                <<Attachment("hero", "", <<videoPreview>>,
                             <<[type |-> "openUrl", title |-> "Open in Youtube",
                                value |-> v]>>)>>,
                << >>)

\* The suggested actions of both welcome prompts (bot.js:99, bot.js:115).
Moods == <<"Happy", "Depressed", "Angry", "Splendid">>

\* welcomeUser: the animation card of bot.js:92-97.
JoinCard ==
    Message(<< >>, <<Attachment("animation", "Welcome to Moody Tunes", <<GIF>>, << >>)>>,
            << >>)

\* welcomeUser: the prompt of bot.js:98-99.
JoinReply(userName) ==
    Message(<<"Hi ", userName,
              ", I am Moody Tunes bot. I can suggest a song depending on your mood.. Start by choosing a mood:">>,
            << >>, Moods)

\* welcomeUserMessage: the animation card of bot.js:108-113.
GreetingCard ==
    Message(<< >>, <<Attachment("animation", "Welcome to Moody Tunes", <<GIF>>, << >>)>>,
            << >>)

GreetingReplyReordered(userName) ==
    Message(<<"Hi ", userName,
              ", I am Moody Tunes bot. I can suggest a song depending on your mood.. Start by choosing a mood:">>,
            << >>, <<"Happy", "Angry", "Depressed", "Splendid">>)

\* welcomeUserMessage: the prompt of bot.js:114-115.
GreetingReply(userName) ==
    Message(<<"Hi ", userName,
              ", I am Moody Tunes bot. I can suggest a song depending on your mood.. Start by choosing a mood:">>,
            << >>, Moods)

-----------------------------------------------------------------------------
(* The pieces of onTurn's synchronous code, bot.js:37-60.                  *)

\* videos[sentiment]: the list of the label, or undefined.
VideoEntry(label) ==
    IF label \in DOMAIN videos THEN <<videos[label]>> ELSE Undefined

RandomIndexCeil(d, len) == ((d * len) \div RandDenom) + 1

\* Math.floor(Math.random() * len) with Math.random() = d / RandDenom.
RandomIndex(d, len) == (d * len) \div RandDenom

ElementAtOrDefault(list, i) ==
    IF i + 1 \in DOMAIN list THEN <<list[i + 1]>> ELSE <<UrlA>>

\* list[i] of a JavaScript array: undefined outside 0 .. length - 1.
ElementAt(list, i) ==
    IF i + 1 \in DOMAIN list THEN <<list[i + 1]>> ELSE Undefined

LowerTextLenient ==
    IF activity.text = Undefined THEN << << >> >>
    ELSE <<ToLowerCase(activity.text[1])>>

\* turnContext.activity.text.toLowerCase() (bot.js:56); undefined stands for
\* the TypeError of calling toLowerCase on an undefined text.
LowerText ==
    IF activity.text = Undefined THEN Undefined
    ELSE <<ToLowerCase(activity.text[1])>>

SuggestBranchUnlessGreeting ==
    /\ luis.intent # "None"
    /\ LowerText[1] # HI
    /\ LowerText[1] # HELLO

\* topIntent.intent !== 'None' (bot.js:57).
SuggestBranch == luis.intent # "None"

GreetBranchUnlessWelcomed ==
    /\ LowerText[1] = HI \/ LowerText[1] = HELLO
    /\ ~welcomed

GreetBranchAlways == TRUE

\* text === 'hi' || text === 'hello' (bot.js:60).
GreetBranch == LowerText[1] = HI \/ LowerText[1] = HELLO

IsNewMemberAlways(i) == TRUE

\* membersAdded[idx].id !== recipient.id (bot.js:89); i counts from 1.
IsNewMember(i) == activity.membersAdded[1][i] # activity.recipientId

-----------------------------------------------------------------------------
(* The state machine.                                                      *)

\* After the constructor (bot.js:18-22): the recognizer and the property
\* accessor exist, no turn has been handled.  `welcomed` is the value the
\* user state holds under WELCOMED_USER for the sender of the current turn.
Init ==
    /\ activity = NoActivity
    /\ welcomed \in BOOLEAN
    /\ pc = "idle"
    /\ luis = NoLuis
    /\ draw = -1
    /\ randomVideo = Undefined
    /\ hero = Undefined
    /\ idx = 0
    /\ sent = << >>
    /\ err = "none"
    /\ recognizeCalls = 0
    /\ replay = FALSE
    /\ prevSent = << >>
    /\ prevErr = "none"
    /\ prevWelcomed = FALSE

\* A new turn starts: the adapter calls onTurn with a fresh activity.
ReceiveActivity ==
    /\ pc \in {"idle", "done"}
    /\ activity' \in Activities
    /\ welcomed' \in BOOLEAN
    /\ pc' = "onTurn"
    /\ luis' = NoLuis
    /\ draw' = -1
    /\ randomVideo' = Undefined
    /\ hero' = Undefined
    /\ idx' = 0
    /\ sent' = << >>
    /\ err' = "none"
    /\ recognizeCalls' = 0
    /\ replay' = FALSE
    /\ prevSent' = << >>
    /\ prevErr' = "none"
    /\ prevWelcomed' = FALSE

\* The same activity is delivered again (the user greets or joins again):
\* the recognizer and Math.random() answer as before, the welcomed flag of
\* the user state may have any value.
RedeliverActivity ==
    /\ pc = "done"
    /\ welcomed' \in BOOLEAN
    /\ pc' = "onTurn"
    /\ randomVideo' = Undefined
    /\ hero' = Undefined
    /\ idx' = 0
    /\ sent' = << >>
    /\ err' = "none"
    /\ recognizeCalls' = 0
    /\ replay' = TRUE
    /\ prevSent' = sent
    /\ prevErr' = err
    /\ prevWelcomed' = welcomed
    /\ UNCHANGED <<activity, luis, draw>>

RecognizeRejectsWithNotice ==
    /\ pc = "onTurn"
    /\ activity.type = "message"
    /\ IF replay THEN luis.state = "failed" ELSE TRUE
    /\ luis' = LuisFailure
    /\ recognizeCalls' = recognizeCalls + 1
    /\ sent' = Append(sent, Message(<<"Sorry, something went wrong.">>, << >>, << >>))
    /\ err' = "RecognizerError"
    /\ pc' = "done"
    /\ UNCHANGED <<activity, welcomed, draw, randomVideo, hero, idx, replay,
                   prevSent, prevErr, prevWelcomed>>

\* case ActivityTypes.Message: the awaited recognize call rejects
\* (bot.js:34); nothing catches it, so onTurn rejects with the same error.
RecognizeRejects ==
    /\ pc = "onTurn"
    /\ activity.type = "message"
    /\ IF replay THEN luis.state = "failed" ELSE TRUE
    /\ luis' = LuisFailure
    /\ recognizeCalls' = recognizeCalls + 1
    /\ err' = "RecognizerError"
    /\ pc' = "done"
    /\ UNCHANGED <<activity, welcomed, draw, randomVideo, hero, idx, sent,
                   replay, prevSent, prevErr, prevWelcomed>>

\* case ActivityTypes.Message: the awaited recognize call resolves
\* (bot.js:34).
RecognizeResolves ==
    /\ pc = "onTurn"
    /\ activity.type = "message"
    /\ \E r \in (IF replay THEN {luis} \cap LuisResults ELSE LuisResults) :
          luis' = r
    /\ recognizeCalls' = recognizeCalls + 1
    /\ pc' = "recognized"
    /\ UNCHANGED <<activity, welcomed, draw, randomVideo, hero, idx, sent, err,
                   replay, prevSent, prevErr, prevWelcomed>>

\* bot.js:37-56, the synchronous code between the recognize call and the
\* first send: read the sentiment label (TypeError when the result has no
\* sentimentAnalysis), pick the video (TypeError when the library has no
\* entry for the label, or when the picked element is undefined and indexOf
\* is called on it), build the hero card, lower-case the text (TypeError
\* when the activity has no text), then branch on the intent and the text.
SelectVideo ==
    /\ pc = "recognized"
    /\ UNCHANGED <<activity, welcomed, luis, idx, sent, recognizeCalls, replay,
                   prevSent, prevErr, prevWelcomed>>
    /\ IF luis.sentiment = Undefined
       THEN /\ err' = "TypeError:38"
            /\ pc' = "done"
            /\ UNCHANGED <<draw, randomVideo, hero>>
       ELSE LET entry == VideoEntry(luis.sentiment[1]) IN
            IF entry = Undefined
            THEN /\ err' = "TypeError:40"
                 /\ pc' = "done"
                 /\ UNCHANGED <<draw, randomVideo, hero>>
            ELSE \E d \in (IF replay /\ draw # -1 THEN {draw} ELSE 0..(RandDenom - 1)) :
                    LET picked == ElementAt(entry[1], RandomIndex(d, Len(entry[1]))) IN
                    /\ draw' = d
                    /\ randomVideo' = picked
                    /\ IF picked = Undefined
                       THEN /\ err' = "TypeError:41"
                            /\ pc' = "done"
                            /\ hero' = hero
                       ELSE /\ hero' = <<HeroMessage(picked[1])>>
                            /\ IF LowerText = Undefined
                               THEN /\ err' = "TypeError:56"
                                    /\ pc' = "done"
                               ELSE /\ err' = err
                                    /\ pc' = IF SuggestBranch THEN "sendAck"
                                             ELSE IF GreetBranch THEN "greetCard"
                                             ELSE "done"

\* await turnContext.sendActivity(`Here's my suggestion ...`) (bot.js:58).
SendAck ==
    /\ pc = "sendAck"
    /\ sent' = Append(sent, AckMessage)
    /\ pc' = "sendHero"
    /\ UNCHANGED <<activity, welcomed, luis, draw, randomVideo, hero, idx, err,
                   recognizeCalls, replay, prevSent, prevErr, prevWelcomed>>

\* await turnContext.sendActivity(hero) (bot.js:59), then break.
SendHero ==
    /\ pc = "sendHero"
    /\ sent' = Append(sent, hero[1])
    /\ pc' = "done"
    /\ UNCHANGED <<activity, welcomed, luis, draw, randomVideo, hero, idx, err,
                   recognizeCalls, replay, prevSent, prevErr, prevWelcomed>>

\* welcomeUserMessage: the first send (bot.js:107-113).
SendGreetingCard ==
    /\ pc = "greetCard"
    /\ sent' = Append(sent, GreetingCard)
    /\ pc' = "greetReply"
    /\ UNCHANGED <<activity, welcomed, luis, draw, randomVideo, hero, idx, err,
                   recognizeCalls, replay, prevSent, prevErr, prevWelcomed>>

\* welcomeUserMessage: the second send (bot.js:114-116), then break.
SendGreetingReply ==
    /\ pc = "greetReply"
    /\ sent' = Append(sent, GreetingReply(activity.fromName))
    /\ pc' = "done"
    /\ UNCHANGED <<activity, welcomed, luis, draw, randomVideo, hero, idx, err,
                   recognizeCalls, replay, prevSent, prevErr, prevWelcomed>>

\* case ActivityTypes.ConversationUpdate: welcomeUser is called and tests
\* membersAdded.length (bot.js:66, bot.js:82); TypeError when the activity
\* has no membersAdded.
WelcomeUser ==
    /\ pc = "onTurn"
    /\ activity.type = "conversationUpdate"
    /\ IF activity.membersAdded = Undefined
       THEN /\ err' = "TypeError:82"
            /\ pc' = "done"
            /\ idx' = idx
       ELSE IF Len(activity.membersAdded[1]) # 0
       THEN /\ err' = err
            /\ pc' = "loop"
            /\ idx' = 1
       ELSE /\ err' = err
            /\ pc' = "done"
            /\ idx' = idx
    /\ UNCHANGED <<activity, welcomed, luis, draw, randomVideo, hero, sent,
                   recognizeCalls, replay, prevSent, prevErr, prevWelcomed>>

\* welcomeUser: the member at idx is the recipient, nothing is sent for it
\* (bot.js:84, bot.js:89).
SkipMember ==
    /\ pc = "loop"
    /\ idx <= Len(activity.membersAdded[1])
    /\ ~IsNewMember(idx)
    /\ idx' = idx + 1
    /\ UNCHANGED <<activity, welcomed, pc, luis, draw, randomVideo, hero, sent,
                   err, recognizeCalls, replay, prevSent, prevErr, prevWelcomed>>

\* welcomeUser: the member at idx is not the recipient, the animation card
\* is sent (bot.js:89-97).
SendJoinCard ==
    /\ pc = "loop"
    /\ idx <= Len(activity.membersAdded[1])
    /\ IsNewMember(idx)
    /\ sent' = Append(sent, JoinCard)
    /\ pc' = "joinReply"
    /\ UNCHANGED <<activity, welcomed, luis, draw, randomVideo, hero, idx, err,
                   recognizeCalls, replay, prevSent, prevErr, prevWelcomed>>

\* welcomeUser: the prompt is sent and the loop goes on (bot.js:98-100).
SendJoinReply ==
    /\ pc = "joinReply"
    /\ sent' = Append(sent, JoinReply(activity.fromName))
    /\ idx' = idx + 1
    /\ pc' = "loop"
    /\ UNCHANGED <<activity, welcomed, luis, draw, randomVideo, hero, err,
                   recognizeCalls, replay, prevSent, prevErr, prevWelcomed>>

\* welcomeUser: the for-in loop is over (bot.js:84), welcomeUser returns and
\* onTurn breaks (bot.js:67).
WelcomeUserReturns ==
    /\ pc = "loop"
    /\ idx > Len(activity.membersAdded[1])
    /\ pc' = "done"
    /\ UNCHANGED <<activity, welcomed, luis, draw, randomVideo, hero, idx, sent,
                   err, recognizeCalls, replay, prevSent, prevErr, prevWelcomed>>

\* default: any other activity type is ignored (bot.js:68-70).
OnTurnDefault ==
    /\ pc = "onTurn"
    /\ activity.type \notin {"message", "conversationUpdate"}
    /\ pc' = "done"
    /\ UNCHANGED <<activity, welcomed, luis, draw, randomVideo, hero, idx, sent,
                   err, recognizeCalls, replay, prevSent, prevErr, prevWelcomed>>

Next ==
    \/ ReceiveActivity
    \/ RedeliverActivity
    \/ RecognizeRejects
    \/ RecognizeResolves
    \/ SelectVideo
    \/ SendAck
    \/ SendHero
    \/ SendGreetingCard
    \/ SendGreetingReply
    \/ WelcomeUser
    \/ SkipMember
    \/ SendJoinCard
    \/ SendJoinReply
    \/ WelcomeUserReturns
    \/ OnTurnDefault

Spec == Init /\ [][Next]_vars

-----------------------------------------------------------------------------
(* Vocabulary of the properties.  Nothing below is used by the actions.    *)

\* Lower-casing, and trimming of surrounding blanks, as the specification
\* words its normalisation of a message body.
Lowered(s) == [i \in 1..Len(s) |-> LowerChar(s[i])]

RECURSIVE TrimLeft(_)
TrimLeft(s) == IF s # << >> /\ Head(s) = " " THEN TrimLeft(Tail(s)) ELSE s

RECURSIVE TrimRight(_)
TrimRight(s) ==
    IF s # << >> /\ s[Len(s)] = " " THEN TrimRight(SubSeq(s, 1, Len(s) - 1)) ELSE s

Trimmed(s) == TrimLeft(TrimRight(s))

Greetings == {HI, HELLO}

\* The onboarding sequence the specification describes, for a sender name.
ExpectedOnboarding(name) ==
    << [text |-> << >>,
        attachments |-> <<[contentType |-> "animation",
                           title |-> "Welcome to Moody Tunes",
                           urls |-> <<GIF>>, buttons |-> << >>]>>,
        suggestedActions |-> << >>],
       [text |-> <<"Hi ", name,
                   ", I am Moody Tunes bot. I can suggest a song depending on your mood.. Start by choosing a mood:">>,
        attachments |-> << >>,
        suggestedActions |-> <<"Happy", "Depressed", "Angry", "Splendid">>] >>

ExpectedAck ==
    [text |-> <<"Here's my suggestion based on your mood, enjoy!">>,
     attachments |-> << >>, suggestedActions |-> << >>]

IsHeroCard(m) ==
    m.attachments # << >> /\ m.attachments[1].contentType = "hero"

IsOnboardingMessage(m) ==
    \/ m.suggestedActions # << >>
    \/ m.attachments # << >> /\ m.attachments[1].contentType = "animation"

RECURSIVE Repeat(_, _)
Repeat(s, n) == IF n = 0 THEN << >> ELSE s \o Repeat(s, n - 1)

MessageTurn == activity.type = "message"

JoinTurn == activity.type = "conversationUpdate"

\* The recognizer has answered in this turn and the code after it has run.
Selected == MessageTurn /\ luis.state = "ok" /\ pc \notin {"onTurn", "recognized"}

HasBody == activity.text # Undefined

\* The sentiment label of the result has a non-empty list in the library.
SentimentHasVideos ==
    /\ luis.sentiment # Undefined
    /\ luis.sentiment[1] \in DOMAIN videos
    /\ videos[luis.sentiment[1]] # << >>

\* The result has a label, and the library has no list or an empty list for it.
SentimentHasNoVideos ==
    /\ luis.sentiment # Undefined
    /\ luis.sentiment[1] \in DOMAIN videos => videos[luis.sentiment[1]] = << >>

NonBotJoiners(list, n) == {i \in 1..n : list[i] # activity.recipientId}

-----------------------------------------------------------------------------
(* C1 .. C10.                                                              *)

\* C1: when the classification returns a sentiment that has videos in the
\* library, the selected video is an element of that sentiment's list (the
\* index is in range, the video is in no other sentiment's list), the card
\* built for it carries exactly that URL as the value of its open-url
\* button, and every card sent is that card; with an intent other than
\* "None" and a body, the finished turn has sent it.
C1_SelectedVideoInLibrary ==
    (Selected /\ SentimentHasVideos) =>
        LET label == luis.sentiment[1] IN
        /\ randomVideo # Undefined
        /\ \E i \in 1..Len(videos[label]) : randomVideo[1] = videos[label][i]
        /\ \A other \in DOMAIN videos \ {label} :
              \A i \in 1..Len(videos[other]) : randomVideo[1] # videos[other][i]
        /\ hero # Undefined
        /\ hero[1].attachments[1].buttons =
              <<[type |-> "openUrl", title |-> "Open in Youtube",
                 value |-> randomVideo[1]]>>
        /\ \A k \in 1..Len(sent) : IsHeroCard(sent[k]) => sent[k] = hero[1]
        /\ (pc = "done" /\ luis.intent # "None" /\ HasBody) =>
              \E k \in 1..Len(sent) : IsHeroCard(sent[k])

C1_Witness ==
    /\ Selected /\ pc = "done"
    /\ luis.intent = "PlayMusic"
    /\ luis.sentiment = <<"negative">>
    /\ randomVideo = <<UrlE>>
    /\ Len(sent) = 2
    /\ sent[2].attachments[1].buttons[1].value = UrlE

\* C2: on a message turn with a body, an intent other than "None" and a
\* sentiment that has videos, exactly two messages are sent, first the
\* acknowledgment text and then the card, and no onboarding message, also
\* when the body is "hi" or "hello".
C2_AckThenCard ==
    (Selected /\ luis.intent # "None" /\ HasBody /\ SentimentHasVideos) =>
        /\ Len(sent) <= 2
        /\ Len(sent) >= 1 => sent[1] = ExpectedAck
        /\ Len(sent) = 2 => IsHeroCard(sent[2])
        /\ \A k \in 1..Len(sent) : ~IsOnboardingMessage(sent[k])
        /\ pc = "done" => (Len(sent) = 2 /\ err = "none")

C2_Witness ==
    /\ Selected /\ pc = "done"
    /\ luis.intent = "PlayMusic"
    /\ activity.text = <<HI>>
    /\ Len(sent) = 2
    /\ sent[1] = ExpectedAck
    /\ IsHeroCard(sent[2])

C5_OneOnboardingPerJoiner ==
    (JoinTurn /\ activity.membersAdded # Undefined) =>
        LET list == activity.membersAdded[1] IN
        /\ recognizeCalls = 0
        /\ pc = "loop" =>
              sent = Repeat(ExpectedOnboarding(activity.fromName),
                            Cardinality(NonBotJoiners(list, idx - 1)))
        /\ pc = "done" =>
              /\ sent = Repeat(ExpectedOnboarding(activity.fromName),
                               Cardinality(NonBotJoiners(list, Len(list))))
              /\ err = "none"

C5_Witness ==
    /\ JoinTurn /\ pc = "done"
    /\ activity.membersAdded = << <<"userX", BotId>> >>
    /\ sent = ExpectedOnboarding(activity.fromName)
    /\ recognizeCalls = 0

\* C6: when the recognize call fails, the turn ends with that error, the
\* recognizer has been called exactly once and nothing has been sent; no
\* turn calls the recognizer twice.
C6_RecognizerFailurePropagates ==
    /\ recognizeCalls <= 1
    /\ (MessageTurn /\ luis.state = "failed" /\ pc = "done") =>
          /\ err = "RecognizerError"
          /\ recognizeCalls = 1
          /\ sent = << >>

C6_Witness ==
    /\ MessageTurn /\ pc = "done"
    /\ luis.state = "failed"
    /\ err = "RecognizerError"
    /\ recognizeCalls = 1

\* C7: with an intent other than "None" and a sentiment label whose list is
\* empty or missing, the turn ends in an error raised by the selection, and
\* neither the acknowledgment nor a card is sent.
C7_NoMediaIsAnError ==
    (Selected /\ luis.intent # "None" /\ SentimentHasNoVideos) =>
        /\ pc = "done"
        /\ err \in {"TypeError:40", "TypeError:41"}
        /\ sent = << >>

C7_Witness ==
    /\ Selected /\ pc = "done"
    /\ luis.intent = "PlayMusic"
    /\ luis.sentiment = <<"neutral">>
    /\ HasBody
    /\ err = "TypeError:41"
    /\ sent = << >>

\* C8 as stated: a message without a body is rejected before the recognizer
\* is called: the recognizer is never called in that turn, nothing is sent,
\* and the turn ends in an error.
C8_AsStated ==
    (MessageTurn /\ ~HasBody) =>
        /\ recognizeCalls = 0
        /\ sent = << >>
        /\ pc = "done" => err # "none"

\* C8 amended: a message without a body ends the turn in an error with no
\* outbound message, whatever the intent, but only after the recognizer has
\* been called once.
C8_NoBodyFailsAfterRecognize ==
    (MessageTurn /\ ~HasBody) =>
        /\ sent = << >>
        /\ pc \in {"onTurn", "recognized", "done"}
        /\ pc = "done" => (err # "none" /\ recognizeCalls = 1)

C8_Witness ==
    /\ MessageTurn /\ ~HasBody /\ pc = "done"
    /\ luis.intent = "PlayMusic"
    /\ SentimentHasVideos
    /\ err = "TypeError:56"
    /\ recognizeCalls = 1
    /\ sent = << >>

\* C9: every onboarding message sent, by welcomeUserMessage or by
\* welcomeUser, is the animation card at an odd position and the prompt at
\* the next even position, both exactly as described and the same on both
\* paths for the same sender; a sequence is complete before the next one
\* starts and before the turn ends.
C9_OnboardingSequenceShape ==
    /\ \A k \in 1..Len(sent) :
          IsOnboardingMessage(sent[k]) =>
              sent[k] = ExpectedOnboarding(activity.fromName)[IF k % 2 = 1 THEN 1 ELSE 2]
    /\ (sent # << >> /\ IsOnboardingMessage(sent[1])) =>
          /\ \A k \in 1..Len(sent) : IsOnboardingMessage(sent[k])
          /\ pc \in {"greetReply", "joinReply"} <=> Len(sent) % 2 = 1
    /\ pc \in {"greetReply", "joinReply"} =>
          (sent # << >> /\ IsOnboardingMessage(sent[1]))

C9_Witness ==
    /\ JoinTurn /\ pc = "done"
    /\ activity.membersAdded = << <<"userX", BotId, "userY">> >>
    /\ sent = ExpectedOnboarding(activity.fromName)
                 \o ExpectedOnboarding(activity.fromName)

\* C10: a turn that repeats the previous turn's activity, classification
\* result and random draw sends the same messages and ends the same way,
\* whatever the welcomed flag holds in either turn.
C10_WelcomedFlagIgnored ==
    (replay /\ pc = "done") => (sent = prevSent /\ err = prevErr)

C10_Witness ==
    /\ replay /\ pc = "done"
    /\ MessageTurn
    /\ welcomed /\ ~prevWelcomed
    /\ sent = ExpectedOnboarding(activity.fromName)
    /\ prevSent = sent

====
